---- MODULE Spec2Model ----
(***************************************************************************)
(* Dominator-tree construction of VC4C                                     *)
(* (src/src/analysis/DominatorTree.cpp).                                   *)
(*                                                                         *)
(* The control-flow graph is the input: a set of nodes, a set of directed  *)
(* edges <<predecessor, node>> and, per edge, the two flags the code reads *)
(* (isBackEdge(predecessor.key), isWorkGroupLoop).  The builder's working  *)
(* state is the tree (nodes, edges), the map dominatorChains, the map      *)
(* predecessors of the pending nodes and the position in the routine.  The *)
(* containers the code iterates are unordered, so every loop iteration     *)
(* picks any element that has not been visited yet.                        *)
(***************************************************************************)
EXTENDS Naturals, Integers, FiniteSets, Sequences, TLC

VARIABLES
    cfgNodes,          \* cfg.getNodes()
    cfgEdges,          \* the edges of the CFG, <<predecessor, node>>
    isBackEdge,        \* edges with edge.data.isBackEdge(predecessor.key)
    isWorkGroupLoop,   \* edges with edge.data.isWorkGroupLoop
    treeNodes,         \* nodes of the DominatorTree created so far
    treeEdges,         \* edges <<dominator, node>> of the DominatorTree
    dominatorChains,   \* node -> sequence of nodes, 0 standing for nullptr
    predecessors,      \* pending node -> its set of candidates
    pc,                \* position in createDominatorTree
    unvisited,         \* elements the running for/while loop has not visited yet
    assertFailed,      \* TRUE once assertNode did not find a tree node
    lastChange,        \* what the caller did before the running construction
    changedEdge,       \* the edge the caller changed last (<<0, 0>>: none)
    prevParent         \* parent assignment of the previous construction

vars == <<cfgNodes, cfgEdges, isBackEdge, isWorkGroupLoop, treeNodes, treeEdges,
          dominatorChains, predecessors, pc, unvisited, assertFailed, lastChange,
          changedEdge, prevParent>>

cfgVars == <<cfgNodes, cfgEdges, isBackEdge, isWorkGroupLoop>>
callerVars == <<lastChange, changedEdge, prevParent>>

(***************************************************************************)
(* Bounds of the model.                                                    *)
(***************************************************************************)
NumNodes == 4          \* nodes of the CFGs of Spec, BuildSpec and LiveSpec
NumNodesPlain == 5     \* nodes of the CFGs of PlainSpec (no excluded edges)
NumNodesAny == 3       \* nodes of the CFGs of SpecAny (edges unrestricted)
MaxExcluded == 1       \* excluded edges (back, work-group-loop, self-loop) per CFG
MaxChainLen == 6       \* cap of a chain's length (reached only by cyclic chains)

NoDominator == 0       \* nullptr in a dominator chain

(***************************************************************************)
(* Helpers on sets, sequences and maps.                                    *)
(***************************************************************************)
Range(s) == {s[i] : i \in DOMAIN s}

Min(a, b) == IF a < b THEN a ELSE b

\* every order in which an unordered container holding S can be iterated
Orders(S) == {s \in [1..Cardinality(S) -> S] : \A i, j \in DOMAIN s : i # j => s[i] # s[j]}

RECURSIVE SubsetsUpTo(_, _)
SubsetsUpTo(S, k) ==
    IF k = 0 THEN {{}}
    ELSE LET smaller == SubsetsUpTo(S, k - 1)
         IN  smaller \cup {T \cup {e} : T \in smaller, e \in S}

EmptyMap == <<>>

\* std::unordered_map::emplace: no effect when the key is present
Emplace(map, key, value) == IF key \in DOMAIN map THEN map ELSE map @@ (key :> value)

\* std::unordered_map::erase
Erase(map, key) == [k \in DOMAIN map \ {key} |-> map[k]]

\* a chain grows without limit only when it runs into a cycle; the model cuts it
Capped(s) == SubSeq(s, 1, Min(Len(s), MaxChainLen))

(***************************************************************************)
(* getDominatorCandidates (DominatorTree.cpp:16-30).                       *)
(***************************************************************************)
\* node.forAllIncomingEdges: the edges that end in the node
IncomingEdges(node) == {e \in cfgEdges : e[2] = node}

\* the lambda of lines 20-24, applied to the incoming edges one after the other
RECURSIVE CollectDominators(_, _)
CollectDominators(incoming, possibleDominators) ==
    IF incoming = {} THEN possibleDominators
    ELSE LET edge == CHOOSE e \in incoming : TRUE
             predecessor == edge[1]
         IN  CollectDominators(incoming \ {edge},
                 IF edge \notin isBackEdge /\ edge \notin isWorkGroupLoop
                 THEN possibleDominators \cup {predecessor}
                 ELSE possibleDominators)

\* as getDominatorCandidates, the back-edge flag read from the node's end of the edge
getDominatorCandidatesWrongEnd(node) ==
    {e[1] : e \in {i \in IncomingEdges(node) :
                     <<i[2], i[1]>> \notin isBackEdge /\ i \notin isWorkGroupLoop}} \ {node}

\* as getDominatorCandidates, the back-edge flag not tested
getDominatorCandidatesBackEdges(node) ==
    {e[1] : e \in {i \in IncomingEdges(node) : i \notin isWorkGroupLoop}} \ {node}

\* as getDominatorCandidates, the work-group-loop flag not tested
getDominatorCandidatesWorkGroupLoop(node) ==
    {e[1] : e \in {i \in IncomingEdges(node) : i \notin isBackEdge}} \ {node}

\* as getDominatorCandidates, the node itself not erased (line 27 left out)
getDominatorCandidatesKeepSelf(node) == CollectDominators(IncomingEdges(node), {})

getDominatorCandidates(node) == CollectDominators(IncomingEdges(node), {}) \ {node}

(***************************************************************************)
(* The tree as the caller reads it: the parent of a node, 0 when none.     *)
(***************************************************************************)
Parents(node) == {e[1] : e \in {t \in treeEdges : t[2] = node}}

ParentOf(node) ==
    IF Parents(node) = {} THEN NoDominator ELSE CHOOSE p \in Parents(node) : TRUE

ParentAssignment == [n \in cfgNodes |-> ParentOf(n)]

\* tree->getOrCreateNode(key): the tree's nodes afterwards
getOrCreateNode(nodes, key) == nodes \cup {key}

\* as DirectPassTreeNodes, the node's own tree node created only together with
\* its edge (line 43 moved into the branch of line 51)
DirectPassTreeNodesWithEdge(nodes, node, tmp) ==
    IF Cardinality(tmp) = 1
    THEN getOrCreateNode(getOrCreateNode(nodes, node), CHOOSE d \in tmp : TRUE)
    ELSE nodes

\* the tree's nodes after lines 43 and 54 for a node with the candidates tmp
DirectPassTreeNodes(nodes, node, tmp) ==
    IF Cardinality(tmp) = 1
    THEN getOrCreateNode(getOrCreateNode(nodes, node), CHOOSE d \in tmp : TRUE)
    ELSE getOrCreateNode(nodes, node)

\* as DirectPass, a single candidate that has no chain yet (forward reference)
\* deferred to the pending set instead of becoming the parent at once
DirectPassDefersForwardReference(node) ==
    /\ pc = "direct"
    /\ node \in unvisited
    /\ LET tmp == getDominatorCandidates(node)
       IN  IF tmp = {}
           THEN /\ dominatorChains' = Emplace(dominatorChains, node, <<NoDominator>>)
                /\ UNCHANGED <<treeEdges, predecessors>>
           ELSE IF Cardinality(tmp) = 1 /\ tmp \subseteq DOMAIN dominatorChains
           THEN LET dominator == CHOOSE d \in tmp : TRUE
                IN  /\ treeEdges' = treeEdges \cup {<<dominator, node>>}
                    /\ dominatorChains' =
                           Emplace(dominatorChains, node,
                                   Capped(<<dominator>> \o dominatorChains[dominator]))
                    /\ UNCHANGED predecessors
           ELSE /\ predecessors' = Emplace(predecessors, node, tmp)
                /\ UNCHANGED <<treeEdges, dominatorChains>>
    /\ treeNodes' = DirectPassTreeNodes(treeNodes, node, getDominatorCandidates(node))
    /\ unvisited' = unvisited \ {node}
    /\ pc' = IF unvisited' = {} THEN "while" ELSE "direct"
    /\ UNCHANGED <<cfgVars, callerVars, assertFailed>>

(***************************************************************************)
(* 1. direct pass, one iteration of the for loop of lines 41-64.           *)
(***************************************************************************)
DirectPass(node) ==
    /\ pc = "direct"
    /\ node \in unvisited
    /\ LET tmp == getDominatorCandidates(node)
       IN  IF tmp = {}
           THEN /\ dominatorChains' = Emplace(dominatorChains, node, <<NoDominator>>)
                /\ UNCHANGED <<treeEdges, predecessors>>
           ELSE IF Cardinality(tmp) = 1
           THEN LET dominator == CHOOSE d \in tmp : TRUE
                    known == IF dominator \in DOMAIN dominatorChains
                             THEN dominatorChains[dominator] ELSE <<>>
                IN  /\ treeEdges' = treeEdges \cup {<<dominator, node>>}
                    /\ dominatorChains' =
                           Emplace(dominatorChains, node, Capped(<<dominator>> \o known))
                    /\ UNCHANGED predecessors
           ELSE /\ predecessors' = Emplace(predecessors, node, tmp)
                /\ UNCHANGED <<treeEdges, dominatorChains>>
    /\ treeNodes' = DirectPassTreeNodes(treeNodes, node, getDominatorCandidates(node))
    /\ unvisited' = unvisited \ {node}
    /\ pc' = IF unvisited' = {} THEN "while" ELSE "direct"
    /\ UNCHANGED <<cfgVars, callerVars, assertFailed>>

(***************************************************************************)
(* 2. the while loop of lines 67-142.                                      *)
(***************************************************************************)
\* line 67, condition true: start the chain extension (or, with no chain at
\* all, the merge pass)
EnterLoop ==
    /\ pc = "while"
    /\ predecessors # EmptyMap
    /\ IF DOMAIN dominatorChains = {}
       THEN pc' = "merge" /\ unvisited' = DOMAIN predecessors
       ELSE pc' = "extend" /\ unvisited' = DOMAIN dominatorChains
    /\ UNCHANGED <<cfgVars, callerVars, treeNodes, treeEdges, dominatorChains,
                   predecessors, assertFailed>>

\* line 67, condition false: the tree is returned
ExitLoop ==
    /\ pc = "while"
    /\ predecessors = EmptyMap
    /\ pc' = "done"
    /\ UNCHANGED <<cfgVars, callerVars, treeNodes, treeEdges, dominatorChains,
                   predecessors, unvisited, assertFailed>>

\* as ExtendedChain, the chain of the first entry appended instead of the chain
\* of the last one (front() for back() in lines 72-77)
ExtendedChainOfFront(chains, key) ==
    LET chain == chains[key]
        front == chain[1]
    IN  IF Len(chain) > 0 /\ front # NoDominator /\ front \in DOMAIN chains
        THEN {Capped(chain \o chains[front])}
        ELSE {chain}

\* as ExtendedChain, nothing appended
ExtendedChainNothing(chains, key) == {chains[key]}

\* lines 72-77 for one chain: the chains the statement can leave behind.  The
\* chain of the last entry is appended, if known.  When the last entry is the
\* chain's own node (possible only on a cycle of single-candidate nodes) the
\* range inserted lies in the vector itself, which the standard leaves undefined:
\* the vector grows by its length, the entries appended are whatever is read
\* from its storage (libstdc++ and libc++ read the old entries in order).
ExtendedChain(chains, key) ==
    LET chain == chains[key]
        back == chain[Len(chain)]
    IN  IF Len(chain) > 0 /\ back # NoDominator /\ back \in DOMAIN chains
        THEN IF back = key
             THEN {Capped(chain \o read) : read \in [1..Len(chain) -> Range(chain)]}
             ELSE {Capped(chain \o chains[back])}
        ELSE {chain}

ExtendChain(key) ==
    /\ pc = "extend"
    /\ key \in unvisited
    /\ \E extended \in ExtendedChain(dominatorChains, key) :
           dominatorChains' = [dominatorChains EXCEPT ![key] = extended]
    /\ IF unvisited = {key}
       THEN pc' = "merge" /\ unvisited' = DOMAIN predecessors
       ELSE pc' = "extend" /\ unvisited' = unvisited \ {key}
    /\ UNCHANGED <<cfgVars, callerVars, treeNodes, treeEdges, predecessors, assertFailed>>

\* as FindMergePoint, the other predecessor itself not looked for (line 117 left out)
FindMergePointChainOnly(dominatorCandidates, predecessor, chain) ==
    LET hits == {i \in DOMAIN dominatorCandidates : dominatorCandidates[i] \in Range(chain)}
    IN  IF hits = {} THEN 0 ELSE CHOOSE i \in hits : \A j \in hits : i <= j

\* lines 114-120: the position of the first entry of dominatorCandidates that is
\* the other predecessor or occurs in its chain; 0 stands for end()
FindMergePoint(dominatorCandidates, predecessor, chain) ==
    LET hits == {i \in DOMAIN dominatorCandidates :
                    \/ dominatorCandidates[i] = predecessor
                    \/ dominatorCandidates[i] \in Range(chain)}
    IN  IF hits = {} THEN 0 ELSE CHOOSE i \in hits : \A j \in hits : i <= j

\* as MergeChains, a predecessor without merge point not aborting the merge: the
\* candidates are cut down to the sentinel (lines 121-125 left out)
RECURSIVE MergeChainsNeverAborts(_, _, _)
MergeChainsNeverAborts(chains, dominatorCandidates, others) ==
    IF others = <<>>
    THEN [loopAborted |-> FALSE, dominatorCandidates |-> dominatorCandidates]
    ELSE LET domIt == FindMergePoint(dominatorCandidates, Head(others), chains[Head(others)])
         IN  MergeChainsNeverAborts(chains,
                 IF domIt = 0 THEN <<NoDominator>>
                 ELSE SubSeq(dominatorCandidates, domIt, Len(dominatorCandidates)),
                 Tail(others))

\* as MergeChains, the preceding candidates not erased (line 127 left out)
RECURSIVE MergeChainsKeepAll(_, _, _)
MergeChainsKeepAll(chains, dominatorCandidates, others) ==
    IF others = <<>>
    THEN [loopAborted |-> FALSE, dominatorCandidates |-> dominatorCandidates]
    ELSE IF FindMergePoint(dominatorCandidates, Head(others), chains[Head(others)]) = 0
         THEN [loopAborted |-> TRUE, dominatorCandidates |-> dominatorCandidates]
         ELSE MergeChainsKeepAll(chains, dominatorCandidates, Tail(others))

\* lines 111-128: the loop over the remaining predecessors, in the order given
RECURSIVE MergeChains(_, _, _)
MergeChains(chains, dominatorCandidates, others) ==
    IF others = <<>>
    THEN [loopAborted |-> FALSE, dominatorCandidates |-> dominatorCandidates]
    ELSE LET domIt == FindMergePoint(dominatorCandidates, Head(others), chains[Head(others)])
         IN  IF domIt = 0
             THEN [loopAborted |-> TRUE, dominatorCandidates |-> dominatorCandidates]
             ELSE MergeChains(chains,
                      SubSeq(dominatorCandidates, domIt, Len(dominatorCandidates)),
                      Tail(others))

\* as MergeResult, the first predecessor not prepended to its chain (line 109 left out)
MergeResultNoPrepend(chains, order) ==
    MergeChains(chains, chains[Head(order)], Tail(order))

\* lines 104-128 for the predecessors taken in the given order
MergeResult(chains, order) ==
    MergeChains(chains, <<Head(order)>> \o chains[Head(order)], Tail(order))

\* lines 87-99
allPredecessorsProcessed(chains, candidates) == \A p \in candidates : p \in DOMAIN chains

\* as MergeAttempt, a candidate without chain skipped (continue) instead of
\* ending the attempt (lines 95-99)
MergeAttemptSkipsUnknown(pendingNode, order) ==
    /\ pc = "merge"
    /\ pendingNode \in unvisited
    /\ LET known == SelectSeq(order, LAMBDA c : c \in DOMAIN dominatorChains)
           merged == IF known # <<>>
                     THEN MergeResult(dominatorChains, known)
                     ELSE [loopAborted |-> TRUE, dominatorCandidates |-> <<>>]
           first == merged.dominatorCandidates[1]
       IN  IF ~merged.loopAborted /\ merged.dominatorCandidates # <<>>
           THEN IF first # NoDominator /\ ~({first, pendingNode} \subseteq treeNodes)
                THEN /\ assertFailed' = TRUE
                     /\ UNCHANGED <<treeEdges, dominatorChains, predecessors>>
                ELSE /\ treeEdges' = IF first # NoDominator
                                     THEN treeEdges \cup {<<first, pendingNode>>}
                                     ELSE treeEdges
                     /\ dominatorChains' = Emplace(dominatorChains, pendingNode,
                                                   Capped(merged.dominatorCandidates))
                     /\ predecessors' = Erase(predecessors, pendingNode)
                     /\ UNCHANGED assertFailed
           ELSE UNCHANGED <<treeEdges, dominatorChains, predecessors, assertFailed>>
    /\ unvisited' = unvisited \ {pendingNode}
    /\ pc' = IF assertFailed' THEN "failed"
             ELSE IF unvisited' = {} THEN "while" ELSE "merge"
    /\ UNCHANGED <<cfgVars, callerVars, treeNodes>>

\* one iteration of the inner while loop of lines 81-141; `order` is the order in
\* which predecessorDominatorChains is iterated
MergeAttempt(pendingNode, order) ==
    /\ pc = "merge"
    /\ pendingNode \in unvisited
    /\ LET merged == IF allPredecessorsProcessed(dominatorChains, predecessors[pendingNode])
                     THEN MergeResult(dominatorChains, order)
                     ELSE [loopAborted |-> TRUE, dominatorCandidates |-> <<>>]
           first == merged.dominatorCandidates[1]
       IN  IF ~merged.loopAborted /\ merged.dominatorCandidates # <<>>
           THEN IF first # NoDominator /\ ~({first, pendingNode} \subseteq treeNodes)
                THEN \* assertNode throws
                     /\ assertFailed' = TRUE
                     /\ UNCHANGED <<treeEdges, dominatorChains, predecessors>>
                ELSE /\ treeEdges' = IF first # NoDominator
                                     THEN treeEdges \cup {<<first, pendingNode>>}
                                     ELSE treeEdges
                     /\ dominatorChains' = Emplace(dominatorChains, pendingNode,
                                                   Capped(merged.dominatorCandidates))
                     /\ predecessors' = Erase(predecessors, pendingNode)
                     /\ UNCHANGED assertFailed
           ELSE UNCHANGED <<treeEdges, dominatorChains, predecessors, assertFailed>>
    /\ unvisited' = unvisited \ {pendingNode}
    /\ pc' = IF assertFailed' THEN "failed"
             ELSE IF unvisited' = {} THEN "while" ELSE "merge"
    /\ UNCHANGED <<cfgVars, callerVars, treeNodes>>

(***************************************************************************)
(* The construction, from the call to the return.                          *)
(***************************************************************************)
\* line 35 and the local maps of lines 37-38
StartOfConstruction ==
    /\ treeNodes = {}
    /\ treeEdges = {}
    /\ dominatorChains = EmptyMap
    /\ predecessors = EmptyMap
    /\ pc = "direct"
    /\ unvisited = cfgNodes
    /\ assertFailed = FALSE

Construction ==
    \/ \E node \in cfgNodes : DirectPass(node)
    \/ EnterLoop
    \/ \E key \in cfgNodes : ExtendChain(key)
    \/ \E pendingNode \in DOMAIN predecessors :
           \E order \in Orders(predecessors[pendingNode]) :
               MergeAttempt(pendingNode, order)
    \/ ExitLoop

(***************************************************************************)
(* The control-flow graphs handed to the construction.                     *)
(*                                                                         *)
(* An edge is excluded from dominance reasoning when it is a back-edge     *)
(* seen from its predecessor, a work-group-loop edge or a self-loop.  In   *)
(* the CFGs of Init every loop is closed by an excluded edge, so the other *)
(* edges form no cycle; the nodes are numbered along a topological order   *)
(* of these edges (the construction never looks at the numbers).  A CFG    *)
(* may have several nodes without candidates.  InitAny lifts the           *)
(* restriction.                                                            *)
(***************************************************************************)
Excluded(e) == e \in isBackEdge \/ e \in isWorkGroupLoop \/ e[1] = e[2]

ExcludedEdges == {e \in cfgEdges : Excluded(e)}

\* <<isBackEdge, isWorkGroupLoop>> of an excluded edge; a self-loop may carry no flag
ExcludedFlags(e) ==
    {<<TRUE, FALSE>>, <<FALSE, TRUE>>, <<TRUE, TRUE>>}
        \cup (IF e[1] = e[2] THEN {<<FALSE, FALSE>>} ELSE {})

InitCaller ==
    /\ lastChange = "first"
    /\ changedEdge = <<0, 0>>
    /\ prevParent = [n \in cfgNodes |-> NoDominator]

Init ==
    /\ cfgNodes = 1..NumNodes
    /\ \E plain \in SUBSET {e \in cfgNodes \X cfgNodes : e[1] < e[2]} :
         \E excluded \in SubsetsUpTo((cfgNodes \X cfgNodes) \ plain, MaxExcluded) :
           \E flags \in [excluded -> BOOLEAN \X BOOLEAN] :
             /\ \A e \in excluded : flags[e] \in ExcludedFlags(e)
             /\ cfgEdges = plain \cup excluded
             /\ isBackEdge = {e \in excluded : flags[e][1]}
             /\ isWorkGroupLoop = {e \in excluded : flags[e][2]}
    /\ StartOfConstruction
    /\ InitCaller

\* larger CFGs without excluded edges
InitPlain ==
    /\ cfgNodes = 1..NumNodesPlain
    /\ cfgEdges \in SUBSET {e \in cfgNodes \X cfgNodes : e[1] < e[2]}
    /\ isBackEdge = {}
    /\ isWorkGroupLoop = {}
    /\ StartOfConstruction
    /\ InitCaller

\* any edges, none flagged: the non-excluded edges may form cycles
InitAny ==
    /\ cfgNodes = 1..NumNodesAny
    /\ cfgEdges \in SUBSET {e \in cfgNodes \X cfgNodes : e[1] # e[2]}
    /\ isBackEdge = {}
    /\ isWorkGroupLoop = {}
    /\ StartOfConstruction
    /\ InitCaller

(***************************************************************************)
(* The caller: the tree is discarded and rebuilt, on the same CFG or after *)
(* the CFG has changed.                                                    *)
(***************************************************************************)
Restart(change, edge) ==
    /\ pc = "done"
    /\ lastChange = "first"
    /\ lastChange' = change
    /\ changedEdge' = edge
    /\ prevParent' = ParentAssignment
    /\ treeNodes' = {}
    /\ treeEdges' = {}
    /\ dominatorChains' = EmptyMap
    /\ predecessors' = EmptyMap
    /\ pc' = "direct"
    /\ unvisited' = cfgNodes
    /\ assertFailed' = FALSE
    /\ cfgNodes' = cfgNodes

\* the same unmodified CFG is analysed again
Rebuild ==
    /\ Restart("none", <<0, 0>>)
    /\ UNCHANGED <<cfgEdges, isBackEdge, isWorkGroupLoop>>

\* an excluded edge is added to the CFG
AddExcludedEdge(e, flags) ==
    /\ e \notin cfgEdges
    /\ Cardinality(ExcludedEdges) < MaxExcluded
    /\ Restart("excluded", e)
    /\ cfgEdges' = cfgEdges \cup {e}
    /\ isBackEdge' = IF flags[1] THEN isBackEdge \cup {e} ELSE isBackEdge
    /\ isWorkGroupLoop' = IF flags[2] THEN isWorkGroupLoop \cup {e} ELSE isWorkGroupLoop

\* an excluded edge is removed from the CFG
RemoveExcludedEdge(e) ==
    /\ e \in ExcludedEdges
    /\ Restart("excluded", e)
    /\ cfgEdges' = cfgEdges \ {e}
    /\ isBackEdge' = isBackEdge \ {e}
    /\ isWorkGroupLoop' = isWorkGroupLoop \ {e}

\* an excluded edge gets other flags and stays excluded
ReflagExcludedEdge(e, flags) ==
    /\ e \in ExcludedEdges
    /\ flags # <<e \in isBackEdge, e \in isWorkGroupLoop>>
    /\ Restart("excluded", e)
    /\ cfgEdges' = cfgEdges
    /\ isBackEdge' = IF flags[1] THEN isBackEdge \cup {e} ELSE isBackEdge \ {e}
    /\ isWorkGroupLoop' = IF flags[2] THEN isWorkGroupLoop \cup {e} ELSE isWorkGroupLoop \ {e}

\* the work-group-loop flag is taken from an edge that is no back-edge; the edge
\* runs along the topological order, so the non-excluded edges stay acyclic
ClearWorkGroupLoop(e) ==
    /\ e \in isWorkGroupLoop \ isBackEdge
    /\ e[1] < e[2]
    /\ Restart("unflag", e)
    /\ isWorkGroupLoop' = isWorkGroupLoop \ {e}
    /\ UNCHANGED <<cfgEdges, isBackEdge>>

Caller ==
    /\ pc = "done"
    /\ lastChange = "first"
    /\ \/ Rebuild
       \/ \E e \in cfgNodes \X cfgNodes : \E flags \in ExcludedFlags(e) : AddExcludedEdge(e, flags)
       \/ \E e \in cfgEdges : RemoveExcludedEdge(e)
       \/ \E e \in cfgEdges : \E flags \in ExcludedFlags(e) : ReflagExcludedEdge(e, flags)
       \/ \E e \in cfgEdges : ClearWorkGroupLoop(e)

Next == Construction \/ Caller

Spec == Init /\ [][Next]_vars

\* one construction on a CFG of the builder
BuildSpec == Init /\ [][Construction]_vars

PlainSpec == InitPlain /\ [][Construction]_vars

\* the routine is sequential, so a step that can be taken is taken
LiveSpec == Init /\ [][Construction]_vars /\ WF_vars(Construction)

\* one construction on an arbitrary graph
SpecAny == InitAny /\ [][Construction]_vars

(***************************************************************************)
(* Dominance on the CFG, from its definition: paths run from the entry     *)
(* along the edges that take part in dominance reasoning (the edges that   *)
(* are not excluded).                                                      *)
(***************************************************************************)
DominanceEdges == {e \in cfgEdges : ~Excluded(e)}

EntryNodes == {n \in cfgNodes : \A e \in DominanceEdges : e[2] # n}

\* the nodes reached from `reached` along dominance edges without entering `avoided`
RECURSIVE ReachableAvoiding(_, _)
ReachableAvoiding(reached, avoided) ==
    LET next == reached \cup
                {e[2] : e \in {d \in DominanceEdges : d[1] \in reached /\ d[2] # avoided}}
    IN  IF next = reached THEN reached ELSE ReachableAvoiding(next, avoided)

Successors(n) == {e[2] : e \in {d \in DominanceEdges : d[1] = n}}

NoCycle == \A n \in cfgNodes : n \notin ReachableAvoiding(Successors(n), NoDominator)

WellFormedCFG ==
    /\ Cardinality(EntryNodes) = 1
    /\ ReachableAvoiding(EntryNodes, NoDominator) = cfgNodes
    /\ NoCycle

\* d is another node than n and lies on every path from the entry to n
Dominates(d, n) == d # n /\ n \notin ReachableAvoiding(EntryNodes \ {d}, d)

\* d is the closest dominator of n: every other dominator of n dominates d
IsImmediateDominator(d, n) ==
    /\ Dominates(d, n)
    /\ \A o \in cfgNodes \ {d} : Dominates(o, n) => Dominates(o, d)

\* the proper ancestors of a node in the tree built so far
RECURSIVE AncestorsFrom(_)
AncestorsFrom(found) ==
    LET next == found \cup UNION {Parents(a) : a \in found}
    IN  IF next = found THEN found ELSE AncestorsFrom(next)

ProperAncestors(n) == AncestorsFrom(Parents(n))

\* the number of parent links followed from n until a node without parent is
\* reached; the walk gives up after more links than there are nodes
RECURSIVE StepsToRoot(_, _)
StepsToRoot(n, steps) ==
    IF Parents(n) = {} \/ steps > Cardinality(cfgNodes) THEN steps
    ELSE StepsToRoot(ParentOf(n), steps + 1)

\* the nodes the direct pass defers to the merge pass
MultiCandidateNodes == {n \in cfgNodes : Cardinality(getDominatorCandidates(n)) >= 2}

(***************************************************************************)
(* C1: for a well-formed CFG (single entry, every node reachable from it,  *)
(* no cycle of non-excluded edges) the completed tree has the edge d -> n  *)
(* exactly when d is the immediate dominator of n; the diamond 1->2, 1->3, *)
(* 2->4, 3->4 gives the parent 1 to 2, 3 and 4.                            *)
(***************************************************************************)
C1_TreeIsImmediateDominators ==
    (pc = "done" /\ WellFormedCFG) =>
        \A d, n \in cfgNodes : (<<d, n>> \in treeEdges) <=> IsImmediateDominator(d, n)

C1_Witness ==
    /\ pc = "done"
    /\ WellFormedCFG
    /\ DominanceEdges = {<<1, 2>>, <<1, 3>>, <<2, 4>>, <<3, 4>>, <<4, 5>>}
    /\ ParentOf(2) = 1 /\ ParentOf(3) = 1 /\ ParentOf(4) = 1

(***************************************************************************)
(* C2: in every tree of the construction, finished or not, a node has at   *)
(* most one parent, no node is its own ancestor, and the parent links from *)
(* any node lead to a node without parent in at most as many steps as      *)
(* there are nodes.                                                        *)
(***************************************************************************)
C2_TreeShape ==
    \A n \in cfgNodes :
        /\ Cardinality(Parents(n)) <= 1
        /\ n \notin ProperAncestors(n)
        /\ StepsToRoot(n, 0) <= Cardinality(cfgNodes)

C2_Witness ==
    /\ pc = "done"
    /\ \E n \in MultiCandidateNodes : ParentOf(n) # NoDominator
    /\ \E n \in cfgNodes : StepsToRoot(n, 0) >= 2
    /\ \E e \in cfgEdges : e[1] = e[2] /\ e \notin isBackEdge /\ e \notin isWorkGroupLoop

(***************************************************************************)
(* C3: on a CFG with a single entry that reaches every node and without    *)
(* cycles of non-excluded edges the construction terminates: the pending   *)
(* set becomes empty and every multi-candidate node has been resolved (it  *)
(* has its chain).                                                         *)
(***************************************************************************)
Terminated ==
    /\ pc = "done"
    /\ predecessors = EmptyMap
    /\ MultiCandidateNodes \subseteq DOMAIN dominatorChains

C3_Terminates == WellFormedCFG ~> Terminated

C3_Witness ==
    /\ Terminated
    /\ WellFormedCFG
    /\ Cardinality(MultiCandidateNodes) >= 2

(***************************************************************************)
(* C4: getDominatorCandidates(n) is exactly the set of the predecessors p  *)
(* of n, other than n, whose edge p -> n is no back-edge seen from p and   *)
(* no work-group-loop edge; the direct pass acts on exactly this set, and  *)
(* no step of the construction changes the CFG.                            *)
(***************************************************************************)
QualifyingPredecessors(n) ==
    {p \in cfgNodes \ {n} : /\ <<p, n>> \in cfgEdges
                            /\ <<p, n>> \notin isBackEdge
                            /\ <<p, n>> \notin isWorkGroupLoop}

DirectPassActsOn(n, candidates) ==
    /\ candidates = {} => (n \in DOMAIN dominatorChains' /\ dominatorChains'[n] = <<NoDominator>>
                           /\ treeEdges' = treeEdges)
    /\ Cardinality(candidates) = 1 => treeEdges' = treeEdges \cup {<<p, n>> : p \in candidates}
    /\ Cardinality(candidates) >= 2 => (n \in DOMAIN predecessors' /\ predecessors'[n] = candidates
                                        /\ treeEdges' = treeEdges)

C4_CandidatesExact ==
    [][/\ cfgVars' = cfgVars
       /\ \A n \in cfgNodes :
            /\ getDominatorCandidates(n) = QualifyingPredecessors(n)
            /\ (pc = "direct" /\ n \in unvisited \ unvisited')
                   => DirectPassActsOn(n, QualifyingPredecessors(n))]_vars

C4_Witness ==
    /\ pc = "direct"
    /\ \E n \in cfgNodes \ unvisited :
         /\ \E e \in IncomingEdges(n) : e[1] # n /\ e \in isBackEdge
         /\ <<n, n>> \notin cfgEdges
         /\ n \in DOMAIN predecessors

(***************************************************************************)
(* C5: a second construction on the same unmodified CFG gives every node   *)
(* the parent (or no parent) the first one gave it, whatever the orders in *)
(* which the two constructions visit nodes, pending nodes and candidates.  *)
(***************************************************************************)
C5_RebuildSameParents ==
    (pc = "done" /\ lastChange = "none") => ParentAssignment = prevParent

C5_Witness ==
    /\ pc = "done"
    /\ lastChange = "none"
    /\ Cardinality(MultiCandidateNodes) >= 2
    /\ \E n \in MultiCandidateNodes : ParentOf(n) # NoDominator /\ ParentOf(n) \notin getDominatorCandidates(n)

(***************************************************************************)
(* C6: excluded edges have no influence on the result.  When the CFG of    *)
(* the second construction differs from the first only in an excluded edge *)
(* (a back-edge, a work-group-loop edge or a self-loop added, removed or   *)
(* flagged differently), every node keeps its parent; in 1->2, 2->3, 3->2  *)
(* (back-edge), 3->4 the parents of 2, 3, 4 are 1, 2, 3; a node whose only *)
(* incoming edge is its self-loop has no parent.                           *)
(***************************************************************************)
C6_ExcludedEdgesIgnored ==
    pc = "done" =>
        /\ lastChange = "excluded" => ParentAssignment = prevParent
        /\ (DominanceEdges = {<<1, 2>>, <<2, 3>>, <<3, 4>>} /\ <<3, 2>> \in cfgEdges)
               => (ParentOf(2) = 1 /\ ParentOf(3) = 2 /\ ParentOf(4) = 3)
        /\ \A n \in cfgNodes : IncomingEdges(n) = {<<n, n>>} => ParentOf(n) = NoDominator

C6_Witness ==
    /\ pc = "done"
    /\ lastChange = "excluded"
    /\ changedEdge = <<3, 2>>
    /\ <<3, 2>> \in cfgEdges \cap isBackEdge
    /\ DominanceEdges = {<<1, 2>>, <<2, 3>>, <<3, 4>>}
    /\ ParentAssignment = prevParent
    /\ ParentOf(2) = 1

(***************************************************************************)
(* C7: a work-group-loop edge never contributes a candidate, also when it  *)
(* is not flagged as a back-edge.  As claimed: taking the flag from such   *)
(* an edge and building again changes the parent assignment.               *)
(***************************************************************************)
WorkGroupLoopExcluded ==
    \A e \in cfgEdges \cap isWorkGroupLoop : e[1] \notin getDominatorCandidates(e[2])

RECURSIVE PrevAncestorsOrSelf(_)
PrevAncestorsOrSelf(n) ==
    IF n = NoDominator THEN {} ELSE {n} \cup PrevAncestorsOrSelf(prevParent[n])

(***************************************************************************)
(* C7 as amended: a work-group-loop edge never contributes a candidate;    *)
(* taking the flag from an edge p -> n that is no back-edge (the           *)
(* non-excluded edges staying acyclic) makes p a candidate of n, and the   *)
(* parent assignment changes exactly when n had no candidate before or had *)
(* a parent that is neither p nor an ancestor of p in the previous tree.   *)
(***************************************************************************)
UnflaggingMatters ==
    LET p == changedEdge[1]
        n == changedEdge[2]
    IN  \/ getDominatorCandidates(n) = {p}
        \/ prevParent[n] # NoDominator /\ prevParent[n] \notin PrevAncestorsOrSelf(p)

C8_TreeNodesAreCfgNodes ==
    /\ treeNodes \subseteq cfgNodes
    /\ pc \in {"while", "extend", "merge", "done"} => treeNodes = cfgNodes
    /\ ~assertFailed
    /\ pc # "failed"

C8_Witness ==
    /\ pc = "done"
    /\ treeNodes = cfgNodes
    /\ \E n \in cfgNodes : Parents(n) = {} /\ \A e \in treeEdges : e[1] # n
    /\ \E n \in MultiCandidateNodes : ParentOf(n) # NoDominator

(***************************************************************************)
(* The merge of a pending node, seen from outside: the step in which the   *)
(* node leaves the pending set, the parent it is given, and the ancestors  *)
(* of its candidates in the tree built so far.                             *)
(***************************************************************************)
MergedNow(n) == n \in DOMAIN predecessors /\ n \notin DOMAIN predecessors'

RecordedParent(n) ==
    LET added == {e[1] : e \in {t \in treeEdges' : t[2] = n}}
    IN  IF added = {} THEN NoDominator ELSE CHOOSE p \in added : TRUE

TreeAncestorsOrSelf(n) == {n} \cup ProperAncestors(n)

CommonAncestors(candidates) ==
    {a \in cfgNodes : \A c \in candidates : a \in TreeAncestorsOrSelf(c)}

\* d is the nearest common ancestor of the candidates (no common ancestor: d = 0)
IsNearestCommonAncestor(d, candidates) ==
    IF d = NoDominator THEN CommonAncestors(candidates) = {}
    ELSE /\ d \in CommonAncestors(candidates)
         /\ \A a \in CommonAncestors(candidates) : a \in TreeAncestorsOrSelf(d)

OwnCandidateOrSharedAncestor(d, candidates) ==
    d # NoDominator => (d \in candidates \/ \A c \in candidates : d \in ProperAncestors(c))

\* the list the merge starts from: the first candidate, then its recorded chain
SeedList(first) == <<first>> \o dominatorChains[first]

FirstOf(positions) == CHOOSE i \in positions : \A j \in positions : i <= j

\* positions of the list whose entry, for every other candidate, equals that
\* candidate or occurs in its recorded chain
InAllRecordedChains(first, candidates) ==
    {i \in DOMAIN SeedList(first) :
        \A c \in candidates \ {first} :
            SeedList(first)[i] = c \/ SeedList(first)[i] \in Range(dominatorChains[c])}

\* positions of the list whose entry is a node that, for every other candidate,
\* equals that candidate or is one of its ancestors in the tree built so far
IsAncestorOfAll(first, candidates) ==
    {i \in DOMAIN SeedList(first) :
        /\ SeedList(first)[i] # NoDominator
        /\ \A c \in candidates \ {first} : SeedList(first)[i] \in TreeAncestorsOrSelf(c)}

(***************************************************************************)
(* C9 as claimed: when the merge of a pending node succeeds, the recorded  *)
(* parent is the nearest common ancestor of its candidates in the tree     *)
(* built so far, namely the first entry of the list (first candidate, then *)
(* its chain) that, for every other candidate, equals that candidate or    *)
(* occurs in its chain; it is a candidate of the node or an ancestor       *)
(* shared by all candidates.                                               *)
(***************************************************************************)
C9_ParentIsFirstEntryInAllChains ==
    [][\A n \in cfgNodes : MergedNow(n) =>
          /\ IsNearestCommonAncestor(RecordedParent(n), predecessors[n])
          /\ OwnCandidateOrSharedAncestor(RecordedParent(n), predecessors[n])
          /\ \E first \in predecessors[n] :
                /\ InAllRecordedChains(first, predecessors[n]) # {}
                /\ SeedList(first)[FirstOf(InAllRecordedChains(first, predecessors[n]))]
                       = RecordedParent(n)]_vars

(***************************************************************************)
(* C9 as amended: when the merge of a pending node succeeds, the recorded  *)
(* parent is the nearest common ancestor of its candidates in the tree     *)
(* built so far: the first entry of the list (first candidate, then its    *)
(* chain) that, for every other candidate, equals that candidate or is one *)
(* of its ancestors in that tree (the recorded chain of the other          *)
(* candidate may still be too short to hold it), or no parent when the     *)
(* list holds no such node; it is a candidate of the node or an ancestor   *)
(* shared by all candidates.                                               *)
(***************************************************************************)
C9_ParentIsNearestCommonAncestor ==
    [][\A n \in cfgNodes : MergedNow(n) =>
          /\ IsNearestCommonAncestor(RecordedParent(n), predecessors[n])
          /\ OwnCandidateOrSharedAncestor(RecordedParent(n), predecessors[n])
          /\ \A first \in predecessors[n] :
                IsAncestorOfAll(first, predecessors[n]) # {} =>
                    SeedList(first)[FirstOf(IsAncestorOfAll(first, predecessors[n]))]
                        = RecordedParent(n)
          /\ RecordedParent(n) # NoDominator =>
                \E first \in predecessors[n] : IsAncestorOfAll(first, predecessors[n]) # {}]_vars

\* a node merged to a shared ancestor that the recorded chain of one of its
\* candidates does not hold
C9_Witness ==
    \E n \in MultiCandidateNodes \cap DOMAIN dominatorChains :
        /\ ParentOf(n) # NoDominator
        /\ ParentOf(n) \notin getDominatorCandidates(n)
        /\ \E c \in getDominatorCandidates(n) :
              c \in DOMAIN dominatorChains /\ ParentOf(n) \notin Range(dominatorChains[c])

(***************************************************************************)
(* Pending nodes that block each other.  A chain is final when it ends in  *)
(* the sentinel or in a node that has no chain (a pending node): the chain *)
(* extension leaves it as it is.  A pending node is blocked when one of    *)
(* its candidates has no chain, or when the chains of all its candidates   *)
(* are final and share no entry: whichever candidate the list starts from, *)
(* some other candidate neither is an entry of the list nor has one in its *)
(* chain.                                                                  *)
(***************************************************************************)
ChainIsFinal(c) ==
    LET chain == dominatorChains[c]
    IN  chain[Len(chain)] = NoDominator \/ chain[Len(chain)] \notin DOMAIN dominatorChains

Blocked(n) ==
    \/ \E c \in predecessors[n] : c \notin DOMAIN dominatorChains
    \/ /\ \A c \in predecessors[n] : ChainIsFinal(c)
       /\ \A first \in predecessors[n] : \E c \in predecessors[n] \ {first} :
              \A i \in DOMAIN SeedList(first) :
                  SeedList(first)[i] # c /\ SeedList(first)[i] \notin Range(dominatorChains[c])

AllPendingBlocked ==
    /\ pc \in {"while", "extend", "merge"}
    /\ predecessors # EmptyMap
    /\ \A n \in DOMAIN predecessors : Blocked(n)

(***************************************************************************)
(* C10: once the pending nodes block each other (for each of them some     *)
(* candidate's chain never becomes known or the chains never reach a       *)
(* common entry) the loop goes on for ever: every further step leaves the  *)
(* pending set as it is and the nodes blocked, the routine neither returns *)
(* nor fails.                                                              *)
(***************************************************************************)
C10_BlockedLoopNeverEnds ==
    [][AllPendingBlocked =>
          /\ AllPendingBlocked'
          /\ predecessors' = predecessors
          /\ pc' \notin {"done", "failed"}]_vars

\* two pending nodes wait for each other, a merge pass has visited one of them
C10_Witness ==
    /\ AllPendingBlocked
    /\ pc = "merge"
    /\ unvisited # DOMAIN predecessors
    /\ \E n, m \in DOMAIN predecessors :
          n # m /\ m \in predecessors[n] /\ n \in predecessors[m]

(***************************************************************************)
(* The merge attempt for a pending node: the step of the merge pass that   *)
(* visits it.  A chain is complete when it ends in the sentinel.           *)
(***************************************************************************)
AttemptedNow(n) == pc = "merge" /\ n \in unvisited /\ n \notin unvisited'

ChainIsComplete(c) ==
    /\ c \in DOMAIN dominatorChains
    /\ dominatorChains[c][Len(dominatorChains[c])] = NoDominator

\* the ancestors of a node in the tree built so far, nearest first, then the sentinel
RECURSIVE AncestorSequence(_, _)
AncestorSequence(n, fuel) ==
    IF Parents(n) = {} \/ fuel = 0 THEN <<NoDominator>>
    ELSE <<ParentOf(n)>> \o AncestorSequence(ParentOf(n), fuel - 1)

(***************************************************************************)
(* C11: when every candidate of a pending node has a complete chain, the   *)
(* merge attempt for the node succeeds in that iteration, with one result  *)
(* whatever the order of the candidates: the nearest common ancestor       *)
(* becomes the parent and the chain is that ancestor followed by its       *)
(* ancestors and the sentinel; when the candidates share only the sentinel *)
(* the node leaves the pending set without parent, its chain being the     *)
(* sentinel alone.                                                         *)
(***************************************************************************)
C11_CompleteChainsMerge ==
    [][\A n \in cfgNodes :
          (AttemptedNow(n) /\ \A c \in predecessors[n] : ChainIsComplete(c)) =>
              /\ MergedNow(n)
              /\ IsNearestCommonAncestor(RecordedParent(n), predecessors[n])
              /\ n \in DOMAIN dominatorChains'
              /\ IF CommonAncestors(predecessors[n]) = {}
                 THEN /\ RecordedParent(n) = NoDominator
                      /\ treeEdges' = treeEdges
                      /\ dominatorChains'[n] = <<NoDominator>>
                 ELSE /\ treeEdges' = treeEdges \cup {<<RecordedParent(n), n>>}
                      /\ dominatorChains'[n] =
                             <<RecordedParent(n)>>
                                 \o AncestorSequence(RecordedParent(n), Cardinality(cfgNodes))]_vars

\* both outcomes have happened: one node merged to a common ancestor of its
\* candidates, another one merged to the sentinel
C11_Witness ==
    /\ \E n \in MultiCandidateNodes \cap DOMAIN dominatorChains :
          /\ Parents(n) # {}
          /\ dominatorChains[n] = <<ParentOf(n)>> \o dominatorChains[ParentOf(n)]
          /\ ChainIsComplete(n)
    /\ \E n \in MultiCandidateNodes \cap DOMAIN dominatorChains :
          dominatorChains[n] = <<NoDominator>>

(***************************************************************************)
(* C12: a node with exactly one candidate has that candidate as its parent *)
(* from its iteration of the direct pass on, whether the candidate was     *)
(* visited before it or not, and is at no time in the pending set; a node  *)
(* without candidates never has a parent.  The chain 1->2->3->4 ends with  *)
(* the parents 1, 2, 3 of 2, 3, 4 and none of 1, in every order.           *)
(***************************************************************************)
VisitedByDirectPass(n) == pc # "direct" \/ n \notin unvisited

LinearChain == {<<1, 2>>, <<2, 3>>, <<3, 4>>}

C12_SingleCandidateIsParent ==
    /\ \A n \in cfgNodes :
          /\ Cardinality(QualifyingPredecessors(n)) = 1 =>
                 /\ n \notin DOMAIN predecessors
                 /\ Parents(n) = IF VisitedByDirectPass(n)
                                 THEN QualifyingPredecessors(n) ELSE {}
                 /\ VisitedByDirectPass(n) =>
                        /\ n \in DOMAIN dominatorChains
                        /\ dominatorChains[n][1] = ParentOf(n)
          /\ QualifyingPredecessors(n) = {} =>
                 /\ n \notin DOMAIN predecessors
                 /\ Parents(n) = {}
    /\ (DominanceEdges = LinearChain /\ pc \notin {"direct"}) =>
           /\ predecessors = EmptyMap
           /\ ParentAssignment = [n \in cfgNodes |-> IF n \in 2..4 THEN n - 1 ELSE NoDominator]

\* forward references on the chain 1->2->3->4: 4 and 3 have their parents while
\* 2, the candidate of 3, has not been visited and has no chain
C12_Witness ==
    /\ DominanceEdges = LinearChain
    /\ pc = "direct"
    /\ unvisited = {1, 2}
    /\ <<3, 4>> \in treeEdges
    /\ <<2, 3>> \in treeEdges
    /\ 2 \notin DOMAIN dominatorChains

(***************************************************************************)
(* C13: while a candidate of a pending node has no chain, no step resolves *)
(* the node: it stays in the pending set with the same candidates, no tree *)
(* edge to it is added and no chain is recorded for it.  So a node with    *)
(* several candidates that has a parent or a chain has candidates that all *)
(* have chains.                                                            *)
(***************************************************************************)
HasUnknownCandidate(n) ==
    /\ n \in DOMAIN predecessors
    /\ \E c \in predecessors[n] : c \notin DOMAIN dominatorChains

StaysPending(n) ==
    /\ n \in DOMAIN predecessors'
    /\ predecessors'[n] = predecessors[n]
    /\ {e \in treeEdges' : e[2] = n} = {e \in treeEdges : e[2] = n}
    /\ n \notin DOMAIN dominatorChains'

ResolvedAfterCandidates ==
    \A n \in cfgNodes :
        (Cardinality(QualifyingPredecessors(n)) >= 2
            /\ (Parents(n) # {} \/ n \in DOMAIN dominatorChains)) =>
                QualifyingPredecessors(n) \subseteq DOMAIN dominatorChains

C13_NotResolvedBeforeCandidates ==
    /\ []ResolvedAfterCandidates
    /\ [][\A n \in cfgNodes : HasUnknownCandidate(n) => StaysPending(n)]_vars

\* a merge attempt has passed over a node whose candidates are one with and one
\* without chain, and the node is still pending without parent
C13_Witness ==
    /\ pc = "merge"
    /\ \E n \in DOMAIN predecessors \ unvisited :
          /\ HasUnknownCandidate(n)
          /\ \E c \in predecessors[n] : c \in DOMAIN dominatorChains
          /\ Parents(n) = {}
          /\ n \notin DOMAIN dominatorChains

(***************************************************************************)
(* C14: in every state of the construction every recorded chain of a node  *)
(* is a prefix of the node's ancestor sequence in the tree recorded so     *)
(* far: the first entry is the node's parent (the sentinel when it has     *)
(* none), every later entry is the parent of the entry before it (the      *)
(* sentinel after a node without parent), the sentinel occurs only as the  *)
(* last entry and no node occurs twice.                                    *)
(***************************************************************************)
ChainFollowsTree(n) ==
    LET chain == dominatorChains[n]
    IN  /\ chain # <<>>
        /\ chain[1] = ParentOf(n)
        /\ Cardinality(Parents(n)) <= 1
        /\ \A i \in 1..(Len(chain) - 1) :
              /\ chain[i] # NoDominator
              /\ Cardinality(Parents(chain[i])) <= 1
              /\ chain[i + 1] = ParentOf(chain[i])
        /\ \A i, j \in 1..Len(chain) : i # j => chain[i] # chain[j]
        /\ n \notin Range(chain)
        /\ chain = SubSeq(AncestorSequence(n, Cardinality(cfgNodes)), 1, Len(chain))

C14_ChainsArePrefixesOfAncestors ==
    \A n \in DOMAIN dominatorChains : ChainFollowsTree(n)

\* in the middle of the while loop, after a chain extension and a merge: one
\* chain of two entries is still partial (it does not end in the sentinel) and a
\* node with several candidates has its parent and its chain
C14_Witness ==
    /\ pc \in {"extend", "merge"}
    /\ \E n \in DOMAIN dominatorChains :
          /\ Len(dominatorChains[n]) >= 2
          /\ ~ChainIsComplete(n)
    /\ \E m \in MultiCandidateNodes \cap DOMAIN dominatorChains :
          /\ Parents(m) # {}
          /\ Len(dominatorChains[m]) >= 2

====
